---------------------------- MODULE Spec2Model ----------------------------
(***************************************************************************)
(* A model of crime_dashboard.py: the cached loader load_data() and the    *)
(* script body main(), which Streamlit re-executes from top to bottom on   *)
(* every user interaction.                                                 *)
(*                                                                         *)
(* A data frame is a record [columns, rows]: the column names and the      *)
(* rows, each a label (its line number in the file, which every filter     *)
(* keeps) and a tuple holding one cell per column.  Of the columns of      *)
(* data.csv the model keeps the three the filters read; every category is  *)
(* a string and every arrest flag "Y" or "N".                              *)
(*                                                                         *)
(* Spec is a session over any small data.csv, with the sidebar filters;    *)
(* SpecCache a session during which data.csv is rewritten; SpecPage a      *)
(* session over files large enough for every page size to give several     *)
(* pages; SpecSample a session over files of about 5000 rows.              *)
(***************************************************************************)
EXTENDS Integers, Sequences, FiniteSets, TLC

(***************************************************************************)
(* Bounds of the model.                                                    *)
(***************************************************************************)
\* the longest data.csv of the session specifications, in rows
MaxRows == 2
\* the longest synthetic data.csv of the pagination specification, in rows
MaxBigRows == 501
\* the longest synthetic data.csv of the sampling specification, in rows
MaxSampleRows == 5001
\* the largest rotation of the sampling permutation
MaxShift == 2

(***************************************************************************)
(* Column names.  A name is its text without the surrounding blanks (core) *)
(* and the number of blanks before (lead) and after (trail) it.            *)
(***************************************************************************)
Name(core) == [core |-> core, lead |-> 0, trail |-> 0]

Padded(core, l, t) == [core |-> core, lead |-> l, trail |-> t]

\* df.columns.str.strip(): every name loses its surrounding blanks
StrStrip(columns) ==
    [i \in DOMAIN columns |-> [columns[i] EXCEPT !.lead = 0, !.trail = 0]]

DATE_OF_OCCURRENCE == Name("DATE  OF OCCURRENCE")
PRIMARY_DESCRIPTION == Name("PRIMARY DESCRIPTION")
ARREST == Name("ARREST")
HOUR == Name("Hour")

\* the position of the column called name, 0 when there is none (KeyError)
ColumnOf(frame, name) ==
    IF \E i \in DOMAIN frame.columns : frame.columns[i] = name
    THEN CHOOSE i \in DOMAIN frame.columns : frame.columns[i] = name
    ELSE 0

(***************************************************************************)
(* Timestamps.  The text of a date cell is "MM/DD/YYYY hh:mm:ss AM|PM"; of *)
(* it the model keeps the day, the 12-hour clock hour and the meridiem.    *)
(* A parsed Timestamp is a day and a 24-hour hour, or NaT.                 *)
(***************************************************************************)
NaT == [nat |-> TRUE, day |-> 0, hour |-> 0]

Timestamp(d, h) == [nat |-> FALSE, day |-> d, hour |-> h]

DateText(d, h12, m) == [day |-> d, h12 |-> h12, meridiem |-> m]

\* pd.to_datetime(text, errors='coerce') of one cell
ToDatetime(text) ==
    IF text.day \in 1..31 /\ text.h12 \in 1..12 /\ text.meridiem \in {"AM", "PM"}
    THEN Timestamp(text.day,
                   (text.h12 % 12) + (IF text.meridiem = "PM" THEN 12 ELSE 0))
    ELSE NaT

\* the NaN of a column of numbers
NaN == 0 - 1

\* Series.dt.hour of one cell: NaN for NaT
DtHour(ts) == IF ts.nat THEN NaN ELSE ts.hour

(***************************************************************************)
(* Data frames.  A row is its label and its cells.                         *)
(***************************************************************************)
None == [columns |-> <<>>, rows |-> <<>>, none |-> TRUE]

Frame(columns, rows) == [columns |-> columns, rows |-> rows, none |-> FALSE]

Row(label, cells) == [label |-> label, cells |-> cells]

Range(s) == {s[i] : i \in DOMAIN s}

\* F(x), with x evaluated once
Bind(x, F(_)) == CHOOSE r \in {F(v) : v \in {x}} : TRUE

Min(a, b) == IF a <= b THEN a ELSE b

\* frame[mask]: of the frame the rows the mask keeps, in their order and
\* with their labels
Masked(frame, rows) == [frame EXCEPT !.rows = rows]

(***************************************************************************)
(* data.csv.  A file that is there has a header line and data lines.       *)
(***************************************************************************)
NoFile == [exists |-> FALSE, header |-> <<>>, lines |-> <<>>]

File(header, lines) == [exists |-> TRUE, header |-> header, lines |-> lines]

\* pd.read_csv('data.csv'), called on a file that exists: rows labelled 0, 1, ...
ReadCsv(file) ==
    Frame(file.header, [i \in DOMAIN file.lines |-> Row(i - 1, file.lines[i])])

(***************************************************************************)
(* load_data(): None when an exception was caught, else the frame.         *)
(***************************************************************************)
\* line 41: the date column parsed, unparseable cells becoming NaT
ParseDates(frame, c) ==
    [frame EXCEPT !.rows =
        [i \in DOMAIN frame.rows |->
            [frame.rows[i] EXCEPT !.cells[c] = ToDatetime(@)]]]

\* line 44
CleanColumnNames(frame) == [frame EXCEPT !.columns = StrStrip(@)]

\* line 50 (of the derived columns, main() reads Hour alone)
AddHour(frame, c) ==
    Frame(Append(frame.columns, HOUR),
          [i \in DOMAIN frame.rows |->
              [frame.rows[i] EXCEPT !.cells = Append(@, DtHour(@[c]))]])

\* the rows with invalid dates kept
DropNaSkipped(frame, c) == frame

\* line 54
DropNa(frame, c) ==
    Masked(frame, SelectSeq(frame.rows, LAMBDA r : ~r.cells[c].nat))

LoadData(file) ==
    IF ~file.exists THEN None                       \* read_csv raises
    ELSE Bind(ReadCsv(file), LAMBDA read :
         Bind(ColumnOf(read, DATE_OF_OCCURRENCE), LAMBDA c :
            IF c = 0 THEN None                      \* KeyError at line 41
            ELSE Bind(CleanColumnNames(ParseDates(read, c)), LAMBDA clean :
                 Bind(ColumnOf(clean, DATE_OF_OCCURRENCE), LAMBDA d :
                 Bind(AddHour(clean, d), LAMBDA derived :
                    DropNa(derived, d))))))

\* a cache keyed by the content of data.csv
CachedByContent(c, input, file) ==
    IF c = <<>> \/ input # file
    THEN Bind(LoadData(file), LAMBDA value :
            [value |-> value, cache |-> <<value>>, input |-> file])
    ELSE [value |-> c[1], cache |-> c, input |-> input]

\* @st.cache_data on a function without arguments: one entry, made by the
\* first call and returned by every later one.  input is the content of
\* data.csv the entry was computed from (a history variable).
CachedLoadData(c, input, file) ==
    IF c = <<>>
    THEN Bind(LoadData(file), LAMBDA value :
            [value |-> value, cache |-> <<value>>, input |-> file])
    ELSE [value |-> c[1], cache |-> c, input |-> input]

(***************************************************************************)
(* main(), lines 74-113: the filters.                                      *)
(***************************************************************************)
\* .min().date() and .max().date() of the date column, which skip NaT;
\* NaT (day 0) when no row has a date
Days(frame, c) ==
    {frame.rows[i].cells[c].day :
        i \in {j \in DOMAIN frame.rows : ~frame.rows[j].cells[c].nat}}

MinDate(frame, c) ==
    Bind(Days(frame, c), LAMBDA days :
        IF days = {} THEN 0 ELSE CHOOSE d \in days : \A e \in days : d <= e)

MaxDate(frame, c) ==
    Bind(Days(frame, c), LAMBDA days :
        IF days = {} THEN 0 ELSE CHOOSE d \in days : \A e \in days : d >= e)

\* Series.dt.date of one cell
DtDate(ts) == ts.day

\* the test of lines 87-88 on one cell; a comparison with NaT is false
Within(ts, date_range) ==
    /\ ~ts.nat
    /\ DtDate(ts) >= date_range[1]
    /\ DtDate(ts) <= date_range[2]

\* a comparison of the end of the range with the instant, not the date
DateFilterByInstant(frame, c, date_range) ==
    IF Len(date_range) = 2
    THEN Masked(frame, SelectSeq(frame.rows, LAMBDA r :
            /\ Within(r.cells[c], date_range)
            /\ DtDate(r.cells[c]) = date_range[2] => r.cells[c].hour = 0))
    ELSE frame

\* a single date taken as the start of the range
DateFilterFromStart(frame, c, date_range) ==
    IF Len(date_range) = 2
    THEN Masked(frame, SelectSeq(frame.rows, LAMBDA r :
            Within(r.cells[c], date_range)))
    ELSE IF Len(date_range) = 1
    THEN Masked(frame, SelectSeq(frame.rows, LAMBDA r :
            ~r.cells[c].nat /\ DtDate(r.cells[c]) >= date_range[1]))
    ELSE frame

\* lines 84-91
DateFilter(frame, c, date_range) ==
    IF Len(date_range) = 2
    THEN Masked(frame, SelectSeq(frame.rows, LAMBDA r :
            Within(r.cells[c], date_range)))
    ELSE frame

\* the crime types in alphabetical order
Alphabet == <<"BATTERY", "THEFT">>

\* line 94: sorted(frame['PRIMARY DESCRIPTION'].unique())
CrimeTypes(frame, c) ==
    SelectSeq(Alphabet, LAMBDA t : \E i \in DOMAIN frame.rows :
                                        frame.rows[i].cells[c] = t)

\* line 98: the default selection of the multiselect
DefaultCrimes(types) ==
    IF Len(types) > 5 THEN Range(SubSeq(types, 1, 5)) ELSE Range(types)

\* lines 101-102
CrimeFilter(frame, c, selected_crimes) ==
    IF selected_crimes # {}
    THEN Masked(frame, SelectSeq(frame.rows, LAMBDA r :
            r.cells[c] \in selected_crimes))
    ELSE frame

ArrestOptions == <<"All", "Arrest Made", "No Arrest">>

\* lines 110-113
ArrestFilter(frame, c, arrest_filter) ==
    IF arrest_filter = "Arrest Made"
    THEN Masked(frame, SelectSeq(frame.rows, LAMBDA r : r.cells[c] = "Y"))
    ELSE IF arrest_filter = "No Arrest"
         THEN Masked(frame, SelectSeq(frame.rows, LAMBDA r : r.cells[c] = "N"))
         ELSE frame

(***************************************************************************)
(* main(), lines 156-188: the aggregates and the map sample.               *)
(***************************************************************************)
\* Series.value_counts(): the count of every value that is not missing;
\* nan holds the values of the column that are
ValueCounts(frame, c, nan) ==
    [k \in {frame.rows[i].cells[c] : i \in DOMAIN frame.rows} \ nan
        |-> Cardinality({i \in DOMAIN frame.rows : frame.rows[i].cells[c] = k})]

\* the position of the first row holding k
FirstRow(frame, c, k) ==
    CHOOSE i \in DOMAIN frame.rows :
        /\ frame.rows[i].cells[c] = k
        /\ \A j \in 1..(i - 1) : frame.rows[j].cells[c] # k

\* the keys of counts by falling count, equal counts by first appearance
RECURSIVE ByCount(_, _, _, _)
ByCount(frame, c, counts, keys) ==
    IF keys = {} THEN <<>>
    ELSE LET top == CHOOSE k \in keys : \A o \in keys :
                        \/ counts[k] > counts[o]
                        \/ /\ counts[k] = counts[o]
                           /\ FirstRow(frame, c, k) <= FirstRow(frame, c, o)
         IN <<[key |-> top, count |-> counts[top]]>>
                \o ByCount(frame, c, counts, keys \ {top})

HeadN(s, n) == SubSeq(s, 1, Min(n, Len(s)))

\* line 158
CrimeCounts(frame, c) ==
    Bind(ValueCounts(frame, c, {}), LAMBDA counts :
        HeadN(ByCount(frame, c, counts, DOMAIN counts), 10))

\* line 172: the hours present, in rising order
HourlyCounts(frame, c) ==
    Bind(ValueCounts(frame, c, {NaN}), LAMBDA counts :
    Bind(SelectSeq([h \in 1..24 |-> h - 1], LAMBDA h : h \in DOMAIN counts),
         LAMBDA hours :
        [i \in DOMAIN hours |-> [key |-> hours[i], count |-> counts[hours[i]]]]))

MapSampleMax == 5000

\* the sample size without its cap
MapSampleUncapped(frame) == Len(frame.rows)

\* line 187
MapSampleSize(frame) == Min(MapSampleMax, Len(frame.rows))

\* RandomState(42).permutation(n)[i]: the generator is fixed by its seed, so
\* it is one permutation per n; which one is left open, a rotation by
\* random_state.shift, read backwards when random_state.rev.
Permutation(random_state, n, i) ==
    LET r == ((i - 1 + random_state.shift) % n) + 1
    IN IF random_state.rev THEN n + 1 - r ELSE r

\* frame.sample(n=n, random_state=42), for n <= len(frame): without
\* replacement, the rows at the first n positions of the permutation
Sample(frame, n, random_state) ==
    [frame EXCEPT !.rows =
        [i \in 1..n |-> frame.rows[Permutation(random_state, Len(frame.rows), i)]]]

(***************************************************************************)
(* main(), lines 210-220: the table's pages.                               *)
(***************************************************************************)
PageSizeOptions == <<50, 100, 200, 500>>

\* the last, partial page forgotten
TotalPagesFloor(n, page_size) == n \div page_size

\* line 212
TotalPages(n, page_size) ==
    (n \div page_size) + (IF n % page_size > 0 THEN 1 ELSE 0)

\* frame.iloc[start:end]: a slice cut to the frame, empty beyond it
ILoc(frame, start, end) ==
    [frame EXCEPT !.rows =
        SubSeq(frame.rows, Min(start, Len(frame.rows)) + 1, Min(end, Len(frame.rows)))]

\* the page number taken as 0-indexed
PageOfZeroBased(frame, page, page_size) ==
    LET start_idx == page * page_size
        end_idx == start_idx + page_size
    IN ILoc(frame, start_idx, end_idx)

\* lines 216-218
PageOf(frame, page, page_size) ==
    LET start_idx == (page - 1) * page_size
        end_idx == start_idx + page_size
    IN ILoc(frame, start_idx, end_idx)

(***************************************************************************)
(* The state.                                                              *)
(***************************************************************************)
VARIABLES
    data_csv,        \* the content of data.csv
    cache,           \* st.cache_data's entries for load_data: <<>> or <<value>>
    read_csv_input,  \* history: the content the cached value was computed from
    random_state,    \* the permutation generator that seed 42 stands for
    status,          \* "init" before the first run, then how the last run of
                     \* main() ended: "ok", "stopped" (st.stop()) or "error"
    df,              \* load_data()'s result in the last run
    date_input,      \* the widgets: their identity and their value
    multiselect,
    arrest_filter,
    page_size,
    number_input,
    requested_page,  \* the page number the user asked for last, 0 - 1 for none
    ran,             \* history: main() has run since data.csv last changed
    crime_types,     \* what the last run computed
    df_filtered,
    crime_counts,
    hourly_counts,
    map_sample_size,
    df_map,
    total_pages,
    df_display

widgets == <<date_input, multiselect, arrest_filter, page_size, number_input>>

outputs == <<crime_types, df_filtered, crime_counts, hourly_counts,
             map_sample_size, df_map, total_pages, df_display>>

vars == <<data_csv, cache, read_csv_input, random_state, status, df,
          widgets, requested_page, ran, outputs>>

(***************************************************************************)
(* Widgets.  Streamlit identifies a widget without a key by its            *)
(* parameters: called with other parameters, or not called in a run, it    *)
(* starts again from its default value.                                    *)
(***************************************************************************)
NoDateInput == [set |-> FALSE, min |-> 0, max |-> 0, value |-> <<>>]
NoMultiselect == [set |-> FALSE, options |-> <<>>, value |-> {}]
NoNumberInput == [set |-> FALSE, max |-> 0, value |-> 1]
DefaultArrest == ArrestOptions[1]
\* line 210: index=1
DefaultPageSize == PageSizeOptions[2]

\* lines 77-82
DateInput(w, min_date, max_date) ==
    IF w.set /\ w.min = min_date /\ w.max = max_date THEN w
    ELSE [set |-> TRUE, min |-> min_date, max |-> max_date,
          value |-> <<min_date, max_date>>]

\* lines 95-99
Multiselect(w, options) ==
    IF w.set /\ w.options = options THEN w
    ELSE [set |-> TRUE, options |-> options, value |-> DefaultCrimes(options)]

\* a page input that keeps its value when max_value changes
NumberInputKeepsValue(w, max_value) ==
    IF w.set THEN [w EXCEPT !.max = max_value]
    ELSE [set |-> TRUE, max |-> max_value, value |-> 1]

\* line 215
NumberInput(w, max_value) ==
    IF w.set /\ w.max = max_value THEN w
    ELSE [set |-> TRUE, max |-> max_value, value |-> 1]

(***************************************************************************)
(* main(): one run of the script, from the state of the widgets w.         *)
(***************************************************************************)
Blank ==
    [crime_types |-> <<>>, df_filtered |-> None, crime_counts |-> <<>>,
     hourly_counts |-> <<>>, map_sample_size |-> 0, df_map |-> None,
     total_pages |-> 0, df_display |-> None,
     date_input |-> NoDateInput, multiselect |-> NoMultiselect,
     arrest_filter |-> DefaultArrest, page_size |-> DefaultPageSize,
     number_input |-> NoNumberInput]

\* lines 210-220
Paginate(view, w) ==
    Bind(TotalPages(Len(view.rows), w.page_size), LAMBDA pages :
    Bind(NumberInput(w.number_input, pages), LAMBDA input :
       IF pages > 1
       THEN [total_pages |-> pages, number_input |-> input,
             df_display |-> PageOf(view, input.value, w.page_size)]
       ELSE [total_pages |-> pages, number_input |-> NoNumberInput,
             df_display |-> view]))

\* lines 115-220, for the filtered view
Show(view, w, rs, crime, hour, shown) ==
    Bind(MapSampleSize(view), LAMBDA size :
    Bind([shown EXCEPT !.df_filtered = view,
                       !.crime_counts = CrimeCounts(view, crime),
                       !.hourly_counts = HourlyCounts(view, hour),
                       !.map_sample_size = size], LAMBDA charts :
       IF size > Len(view.rows)
       THEN [status |-> "error", out |-> charts]             \* ValueError, line 188
       ELSE Bind(Paginate(view, w), LAMBDA table :
            [status |-> "ok",
             out |-> [charts EXCEPT !.df_map = Sample(view, size, rs),
                                    !.page_size = w.page_size,
                                    !.total_pages = table.total_pages,
                                    !.number_input = table.number_input,
                                    !.df_display = table.df_display]])))

\* lines 70-113, for a frame that was loaded with its columns at date,
\* crime, arrest and hour
Filter(frame, w, rs, date, crime, arrest, hour) ==
    Bind(DateInput(w.date_input, MinDate(frame, date), MaxDate(frame, date)),
         LAMBDA dates :
    Bind(DateFilter(frame, date, dates.value), LAMBDA in_range :
    Bind(CrimeTypes(in_range, crime), LAMBDA types :
    Bind(Multiselect(w.multiselect, types), LAMBDA crimes :
    Bind(CrimeFilter(in_range, crime, crimes.value), LAMBDA of_type :
    Bind(ArrestFilter(of_type, arrest, w.arrest_filter), LAMBDA view :
        Show(view, w, rs, crime, hour,
             [Blank EXCEPT !.date_input = dates,
                           !.multiselect = crimes,
                           !.arrest_filter = w.arrest_filter,
                           !.crime_types = types])))))))

Render(frame, w, rs) ==
    Bind(ColumnOf(frame, PRIMARY_DESCRIPTION), LAMBDA crime :
    Bind(ColumnOf(frame, ARREST), LAMBDA arrest :
       IF crime = 0 \/ arrest = 0
       THEN [status |-> "error", out |-> Blank]              \* KeyError
       ELSE Filter(frame, w, rs, ColumnOf(frame, DATE_OF_OCCURRENCE),
                   crime, arrest, ColumnOf(frame, HOUR))))

\* lines 61-220: the ways one run can end.  What date_input does with the
\* NaT bounds of a frame without rows is not fixed by this code: the run
\* may raise there or go on.
Main(file, c, input, w, rs) ==
    Bind(CachedLoadData(c, input, file), LAMBDA load :
    Bind(IF load.value.none
         THEN {[status |-> "stopped", out |-> Blank]}        \* lines 67-68
         ELSE IF load.value.rows = <<>>
         THEN {[status |-> "error", out |-> Blank], Render(load.value, w, rs)}
         ELSE {Render(load.value, w, rs)}, LAMBDA runs :
       {[cache |-> load.cache, input |-> load.input, df |-> load.value,
         status |-> run.status, out |-> run.out] : run \in runs}))

(***************************************************************************)
(* The files and generators the specifications start from.                 *)
(***************************************************************************)
\* the header with a blank before the date column's name alone, and with
\* blanks around the other names alone; BigFile has the header without any
Headers ==
    {<<Padded("DATE  OF OCCURRENCE", l, 0), Padded("PRIMARY DESCRIPTION", 1 - l, 0),
       Padded("ARREST", 0, 1 - l)>> : l \in 0..1}

CleanHeader == <<DATE_OF_OCCURRENCE, PRIMARY_DESCRIPTION, ARREST>>

\* an empty cell, "... 01:00:00 PM" on day 1 and "... 12:00:00 AM" on day 2
DateTexts == {DateText(0, 0, ""), DateText(1, 1, "PM"), DateText(2, 12, "AM")}

Lines == {<<t, c, a>> : t \in DateTexts, c \in Range(Alphabet), a \in {"Y", "N"}}

LinesUpTo(n) == UNION {[1..k -> Lines] : k \in 0..n}

Files == {NoFile} \cup {File(h, ls) : h \in Headers, ls \in LinesUpTo(MaxRows)}

\* the files of the cache specification
SmallFiles == {f \in Files : Len(f.lines) <= 1}

\* the lengths of the files of the pagination specification: one row, and
\* for every page size one full page and one row more
BigLengths ==
    {n \in 1..MaxBigRows :
        n = 1 \/ \E i \in DOMAIN PageSizeOptions :
                    n \in {PageSizeOptions[i], PageSizeOptions[i] + 1}}

\* the lengths of the files of the sampling specification
SampleLengths == {n \in 0..MaxSampleRows : n <= 3 \/ n >= MaxSampleRows - 2}

\* n thefts on day 1, every one with an arrest but the last
BigFile(n) ==
    File(CleanHeader,
         [i \in 1..n |-> <<DateText(1, 1, "PM"), "THEFT",
                           IF i = n THEN "N" ELSE "Y">>])

\* the generators of the sampling specification, and the one of the others
Generators == [shift : 0..MaxShift, rev : BOOLEAN]

Generator == [shift |-> 1, rev |-> TRUE]

(***************************************************************************)
(* The steps: the first run of a session, and one run per interaction.     *)
(***************************************************************************)
Widgets ==
    [date_input |-> date_input, multiselect |-> multiselect,
     arrest_filter |-> arrest_filter, page_size |-> page_size,
     number_input |-> number_input]

Run(w) ==
    \E r \in Main(data_csv, cache, read_csv_input, w, random_state) :
           /\ cache' = r.cache
           /\ read_csv_input' = r.input
           /\ df' = r.df
           /\ status' = r.status
           /\ date_input' = r.out.date_input
           /\ multiselect' = r.out.multiselect
           /\ arrest_filter' = r.out.arrest_filter
           /\ page_size' = r.out.page_size
           /\ number_input' = r.out.number_input
           /\ crime_types' = r.out.crime_types
           /\ df_filtered' = r.out.df_filtered
           /\ crime_counts' = r.out.crime_counts
           /\ hourly_counts' = r.out.hourly_counts
           /\ map_sample_size' = r.out.map_sample_size
           /\ df_map' = r.out.df_map
           /\ total_pages' = r.out.total_pages
           /\ df_display' = r.out.df_display
           /\ ran' = TRUE
           /\ UNCHANGED <<data_csv, random_state>>

Open ==
    /\ status = "init"
    /\ Run(Widgets)
    /\ UNCHANGED requested_page

Rerun ==
    /\ status # "init"
    /\ Run(Widgets)
    /\ UNCHANGED requested_page

\* the date range picker returns one date while the range is being picked
SetDateRange ==
    /\ status = "ok"
    /\ \E v \in UNION {[1..k -> date_input.min..date_input.max] : k \in 1..2} :
        /\ Len(v) = 2 => v[1] <= v[2]
        /\ Run([Widgets EXCEPT !.date_input.value = v])
    /\ UNCHANGED requested_page

SetCrimes ==
    /\ status = "ok"
    /\ \E v \in SUBSET Range(multiselect.options) :
        Run([Widgets EXCEPT !.multiselect.value = v])
    /\ UNCHANGED requested_page

SetArrest ==
    /\ status = "ok"
    /\ \E v \in Range(ArrestOptions) : Run([Widgets EXCEPT !.arrest_filter = v])
    /\ UNCHANGED requested_page

SetPageSize ==
    /\ status = "ok"
    /\ \E v \in Range(PageSizeOptions) : Run([Widgets EXCEPT !.page_size = v])
    /\ UNCHANGED requested_page

\* a page number within min_value..max_value
SetPage ==
    /\ status = "ok"
    /\ number_input.set
    /\ \E v \in 1..number_input.max :
        /\ Run([Widgets EXCEPT !.number_input.value = v])
        /\ requested_page' = v

\* a page number outside min_value..max_value: the input does not accept
\* it, its value stays and the script is not run
RequestPage ==
    /\ status = "ok"
    /\ number_input.set
    /\ \E v \in {0, number_input.max + 1} : requested_page' = v
    /\ UNCHANGED <<data_csv, cache, read_csv_input, random_state, status, df,
                   widgets, ran, outputs>>

\* data.csv is rewritten, removed or created while the session lasts
WriteFile ==
    /\ \E f \in SmallFiles :
        /\ f # data_csv
        /\ data_csv' = f
    /\ ran' = FALSE
    /\ UNCHANGED <<cache, read_csv_input, random_state, status, df, widgets,
                   requested_page, outputs>>

(***************************************************************************)
(* The specifications.                                                     *)
(***************************************************************************)
Start ==
    /\ cache = <<>>
    /\ read_csv_input = NoFile
    /\ status = "init"
    /\ df = None
    /\ date_input = Blank.date_input
    /\ multiselect = Blank.multiselect
    /\ arrest_filter = Blank.arrest_filter
    /\ page_size = Blank.page_size
    /\ number_input = Blank.number_input
    /\ requested_page = 0 - 1
    /\ ran = FALSE
    /\ crime_types = Blank.crime_types
    /\ df_filtered = Blank.df_filtered
    /\ crime_counts = Blank.crime_counts
    /\ hourly_counts = Blank.hourly_counts
    /\ map_sample_size = Blank.map_sample_size
    /\ df_map = Blank.df_map
    /\ total_pages = Blank.total_pages
    /\ df_display = Blank.df_display

\* a session over any small data.csv, which stays as it is: the filters
Init ==
    /\ data_csv \in Files
    /\ random_state = Generator
    /\ Start

Next == Open \/ Rerun \/ SetDateRange \/ SetCrimes \/ SetArrest

Spec == Init /\ [][Next]_vars

\* a session during which data.csv changes: the cache
InitCache ==
    /\ data_csv \in SmallFiles
    /\ random_state = Generator
    /\ Start

NextCache == Open \/ Rerun \/ SetArrest \/ WriteFile

SpecCache == InitCache /\ [][NextCache]_vars

\* a session over a data.csv of up to MaxBigRows rows: the table's pages
InitPage ==
    /\ data_csv \in {BigFile(n) : n \in BigLengths}
    /\ random_state = Generator
    /\ Start

NextPage == Open \/ SetArrest \/ SetPageSize \/ SetPage \/ RequestPage

SpecPage == InitPage /\ [][NextPage]_vars

\* a session over a data.csv of a few or of about MapSampleMax rows: the sample
InitSample ==
    /\ data_csv \in {BigFile(n) : n \in SampleLengths}
    /\ random_state \in Generators
    /\ Start

NextSample == Open \/ Rerun \/ SetArrest

SpecSample == InitSample /\ [][NextSample]_vars

(***************************************************************************)
(* What the claims speak of, stated apart from the operators above.        *)
(***************************************************************************)
\* the cells of a row of df by the names main() reads them under
DateOf(r) == r.cells[ColumnOf(df, DATE_OF_OCCURRENCE)]
CrimeOf(r) == r.cells[ColumnOf(df, PRIMARY_DESCRIPTION)]
ArrestOf(r) == r.cells[ColumnOf(df, ARREST)]

InDateRange(r) ==
    /\ date_input.value[1] <= DateOf(r).day
    /\ DateOf(r).day <= date_input.value[2]

InCrimes(r) == multiselect.value = {} \/ CrimeOf(r) \in multiselect.value

InArrest(r) ==
    \/ arrest_filter = "All"
    \/ arrest_filter = "Arrest Made" /\ ArrestOf(r) = "Y"
    \/ arrest_filter = "No Arrest" /\ ArrestOf(r) = "N"

\* the rows of frame are rows of df, in df's order
InOrderOf(frame) ==
    /\ \A i \in DOMAIN frame.rows : \E j \in DOMAIN df.rows : frame.rows[i] = df.rows[j]
    /\ \A i, j \in DOMAIN frame.rows : i < j => frame.rows[i].label < frame.rows[j].label
    /\ \A i, j \in DOMAIN df.rows : i < j => df.rows[i].label < df.rows[j].label

RECURSIVE SumCounts(_)
SumCounts(counts) ==
    IF counts = <<>> THEN 0 ELSE counts[1].count + SumCounts(Tail(counts))

Ceil(n, d) == CHOOSE k \in 0..n : k * d >= n /\ (k - 1) * d < n

\* the rows of the view at the ordinal positions of page p, counted from 1
Slice(p) ==
    [i \in 1..(Min(p * page_size, Len(df_filtered.rows)) - (p - 1) * page_size)
        |-> df_filtered.rows[(p - 1) * page_size + i]]

Labels(frame) == {frame.rows[i].label : i \in DOMAIN frame.rows}

\* data.csv as read by the cached call, its column names without blanks
Unpadded(file) == [file EXCEPT !.header = StrStrip(@)]

Parseable(file) == {i \in DOMAIN file.lines : ~ToDatetime(file.lines[i][1]).nat}

(***************************************************************************)
(* The claims.                                                             *)
(***************************************************************************)
\* C1: with a date range of two dates, the filtered view is a subsequence
\* of the loaded dataset in its order and holds exactly the rows whose date
\* (the day alone) is within the range, both ends included, whose category
\* is selected (any when none is selected) and whose arrest flag is the one
\* asked for (any for All).
C1_FilteredView ==
    (status = "ok" /\ Len(date_input.value) = 2) =>
        /\ InOrderOf(df_filtered)
        /\ Range(df_filtered.rows) =
              {r \in Range(df.rows) : InDateRange(r) /\ InCrimes(r) /\ InArrest(r)}

\* a row of the last day of the range, later than midnight, is in the view
\* and a row after the range is not
C1_Witness ==
    /\ status = "ok"
    /\ Len(date_input.value) = 2
    /\ \E r \in Range(df_filtered.rows) :
          DateOf(r).day = date_input.value[2] /\ DateOf(r).hour > 0
    /\ \E r \in Range(df.rows) :
          DateOf(r).day > date_input.value[2] /\ r \notin Range(df_filtered.rows)

\* C2: load_data returns None, never a frame without rows, when data.csv
\* cannot be opened or no row's date parses; when a row parses (the column
\* names as expected), it returns the rows that parse and only them.
C2_Orig ==
    cache # <<>> =>
        /\ (~read_csv_input.exists \/ Parseable(read_csv_input) = {})
              => cache[1].none
        /\ (/\ read_csv_input.exists
            /\ Parseable(read_csv_input) # {}
            /\ read_csv_input.header[1] = DATE_OF_OCCURRENCE)
              => /\ ~cache[1].none
                 /\ Labels(cache[1]) = {i - 1 : i \in Parseable(read_csv_input)}

\* C3: after every run the dataset is the one load_data computes from the
\* content data.csv has now.
C3_Orig == (status # "init" /\ ran) => df = LoadData(data_csv)

\* C3, amended: once the cache holds a value no step replaces it, whatever
\* becomes of data.csv, and every run returns that value: the dataset
\* computed from the content data.csv had at the first run.
C3_Amended ==
    [][/\ cache # <<>> => cache' = cache /\ read_csv_input' = read_csv_input
       /\ status' # "init" =>
             df' = cache'[1] /\ cache' = <<LoadData(read_csv_input')>>]_vars

\* a run made after data.csv changed shows the dataset of the old content
C3_Witness ==
    /\ status = "ok"
    /\ ran
    /\ data_csv # read_csv_input
    /\ df # LoadData(data_csv)

\* C4: total_pages is the ceiling of |view| / page_size and at least 1.
C4_Orig ==
    status = "ok" =>
        /\ total_pages = Ceil(Len(df_filtered.rows), page_size)
        /\ total_pages >= 1

\* C4, amended: total_pages is the ceiling of |view| / page_size: at least 1
\* for a view with rows, 0 for the empty view.
C4_Amended ==
    status = "ok" =>
        /\ total_pages = Ceil(Len(df_filtered.rows), page_size)
        /\ df_filtered.rows # <<>> => total_pages >= 1
        /\ df_filtered.rows = <<>> => total_pages = 0

C4_Witness == status = "ok" /\ df_filtered.rows = <<>> /\ total_pages = 0

\* C5: a page number asked for outside 1..total_pages is clamped: above
\* total_pages the last page is displayed, below 1 the first.
C5_Orig ==
    (status = "ok" /\ requested_page >= 0) =>
        /\ requested_page > total_pages =>
              df_display.rows = (IF total_pages > 1 THEN Slice(total_pages)
                                 ELSE df_filtered.rows)
        /\ requested_page < 1 =>
              df_display.rows = (IF total_pages > 1 THEN Slice(1)
                                 ELSE df_filtered.rows)

\* C5, amended: no run fails over the page number.  With more than one page
\* the page sliced is the value of the page input, which is within
\* 1..total_pages and is 1 again whenever total_pages has changed; with one
\* page or none the whole view is displayed.
C5_Amended ==
    /\ [](status \in {"init", "ok"})
    /\ [](status = "ok" =>
            /\ total_pages > 1 =>
                  /\ number_input.value \in 1..total_pages
                  /\ df_display.rows = Slice(number_input.value)
            /\ total_pages <= 1 => df_display = df_filtered)
    /\ [][(status' = "ok" /\ total_pages' > 1 /\ total_pages' # total_pages)
              => number_input'.value = 1]_vars

\* the page asked for last is beyond the pages of a view that shrank, and
\* the first page is displayed, not the last
C5_Witness ==
    /\ status = "ok"
    /\ total_pages > 1
    /\ requested_page > total_pages + 1
    /\ number_input.value = 1
    /\ df_display.rows = Slice(1)

\* C6: every page p of 1..total_pages is the slice of the view at the
\* ordinal positions (p-1)*page_size .. p*page_size-1, cut at the end of
\* the view; the pages are disjoint and their lengths add up to |view|.
C6_Pages ==
    status = "ok" =>
        /\ \A p \in 1..total_pages :
              PageOf(df_filtered, p, page_size).rows = Slice(p)
        /\ \A p, q \in 1..total_pages :
              p # q => Labels(PageOf(df_filtered, p, page_size))
                          \cap Labels(PageOf(df_filtered, q, page_size)) = {}
        /\ SumCounts([p \in 1..total_pages |->
                        [count |-> Len(PageOf(df_filtered, p, page_size).rows)]])
              = Len(df_filtered.rows)
        /\ total_pages > 1 => df_display = PageOf(df_filtered, number_input.value, page_size)

\* the last of three pages or more is displayed, and it is not full
C6_Witness ==
    /\ status = "ok"
    /\ total_pages >= 3
    /\ number_input.value = total_pages
    /\ Len(df_display.rows) \in 1..(page_size - 1)

\* C7: the counts by category and the counts by hour each add up to |view|.
C7_Counts ==
    status = "ok" =>
        /\ SumCounts(crime_counts) = Len(df_filtered.rows)
        /\ SumCounts(hourly_counts) = Len(df_filtered.rows)
        /\ Len(crime_counts) = Cardinality({CrimeOf(r) : r \in Range(df_filtered.rows)})

\* a view of two categories and two hours
C7_Witness ==
    /\ status = "ok"
    /\ Len(crime_counts) = 2
    /\ Len(hourly_counts) = 2

\* C8: the map sample is made of rows of the view, none twice, and has
\* min(5000, |view|) rows; taking it never raises (a run raises only at the
\* date input of a dataset without rows).
C8_Sample ==
    /\ status = "error" => df.rows = <<>>
    /\ status = "ok" =>
          /\ map_sample_size = Min(MapSampleMax, Len(df_filtered.rows))
          /\ Len(df_map.rows) = map_sample_size
          /\ Cardinality(Labels(df_map)) = Len(df_map.rows)
          /\ Range(df_map.rows) \subseteq Range(df_filtered.rows)

\* a view of more rows than the cap, and a sample of exactly the cap
C8_Witness ==
    /\ status = "ok"
    /\ Len(df_filtered.rows) > MapSampleMax
    /\ Len(df_map.rows) = MapSampleMax

\* C9: for a data.csv whose column names carry surrounding blanks, load_data
\* returns what it returns for the same file with the blanks removed.
C9_Orig ==
    (cache # <<>> /\ read_csv_input.exists) =>
        /\ ~cache[1].none
        /\ cache[1] = LoadData(Unpadded(read_csv_input))

\* C10: when the date input holds one date, no date restriction applies:
\* the category options are those of the whole dataset and the view holds
\* exactly the rows of the whole dataset that pass the category and the
\* arrest filter.
C10_NoDateRestriction ==
    (status = "ok" /\ Len(date_input.value) # 2) =>
        /\ Range(crime_types) = {CrimeOf(r) : r \in Range(df.rows)}
        /\ InOrderOf(df_filtered)
        /\ Range(df_filtered.rows) =
              {r \in Range(df.rows) : InCrimes(r) /\ InArrest(r)}

\* one date is picked and a row dated before it is in the view
C10_Witness ==
    /\ status = "ok"
    /\ Len(date_input.value) = 1
    /\ \E r \in Range(df_filtered.rows) : DateOf(r).day < date_input.value[1]

=============================================================================
